---- MODULE Spec2Model ----
(***************************************************************************)
(* GitHubService.pushAtomicUpdate (src/services/gcsService.ts) publishing  *)
(* a batch of files as one commit through the Git Data API of the hosting  *)
(* provider: read ref, read commit, create blobs, create tree, create      *)
(* commit, update ref.  Several invocations run concurrently against one   *)
(* branch; every fetch may fail (rejected promise) or come back with a     *)
(* non-2xx response.                                                       *)
(*                                                                         *)
(* Further parts, each with a specification of its own: encodeContent on   *)
(* one string and back (SpecCodec); the modal components, the keyboard     *)
(* focus and the scroll lock (SpecModal); App's handleRun and              *)
(* handleGitHubPush (SpecApp); App's handleRun, sidebar and file explorer  *)
(* (SpecEditor).                                                           *)
(***************************************************************************)
EXTENDS Integers, Sequences, FiniteSets, TLC

\* ------------------------------------------------------------------ bounds
MaxFiles == 2       \* longest batch handed to one invocation
MaxFaults == 1      \* injected transport / HTTP failures in one behaviour
MaxOtherPushes == 1 \* pushes to the branch by clients other than this program
MaxLen == 3         \* longest content string encoded on its own, in code units
MaxControls == 2    \* controls a modal holds besides its close button
MaxGenerated == 2   \* most files one generation returns

\* Two invocations of pushAtomicUpdate against the same repository.
Calls == {"A", "B"}

\* Repository-relative paths.
Paths == {"README.md", "src/index.ts"}

\* File contents are JS strings: sequences of UTF-16 code units.
\* "H" and the CJK character U+4E2D (three bytes in UTF-8).
Contents == {<<72>>, <<20013>>}

File(p, k) == [path |-> p, content |-> k]
Files == {File(p, k) : p \in Paths, k \in Contents}

RECURSIVE SeqsUpTo(_, _)
SeqsUpTo(S, n) ==
  IF n = 0 THEN {<<>>}
  ELSE LET shorter == SeqsUpTo(S, n - 1)
       IN shorter \cup {Append(s, x) : s \in {t \in shorter : Len(t) = n - 1}, x \in S}

Batches == SeqsUpTo(Files, MaxFiles)

\* --------------------------------------------------------- content encoding
IsHighSurrogate(u) == u >= 55296 /\ u <= 56319
IsLowSurrogate(u) == u >= 56320 /\ u <= 57343

\* USVString conversion done by TextEncoder.encode: surrogate pairs become one
\* scalar value, a lone surrogate becomes U+FFFD.
RECURSIVE ScalarValues(_)
ScalarValues(s) ==
  IF s = <<>> THEN <<>>
  ELSE IF IsHighSurrogate(s[1]) /\ Len(s) >= 2 /\ IsLowSurrogate(s[2])
       THEN <<65536 + (s[1] - 55296) * 1024 + (s[2] - 56320)>>
              \o ScalarValues(SubSeq(s, 3, Len(s)))
       ELSE IF IsHighSurrogate(s[1]) \/ IsLowSurrogate(s[1])
            THEN <<65533>> \o ScalarValues(Tail(s))
            ELSE <<s[1]>> \o ScalarValues(Tail(s))

Utf8OfScalar(cp) ==
  IF cp < 128 THEN <<cp>>
  ELSE IF cp < 2048 THEN <<192 + (cp \div 64), 128 + (cp % 64)>>
  ELSE IF cp < 65536
       THEN <<224 + (cp \div 4096), 128 + ((cp \div 64) % 64), 128 + (cp % 64)>>
       ELSE <<240 + (cp \div 262144), 128 + ((cp \div 4096) % 64),
              128 + ((cp \div 64) % 64), 128 + (cp % 64)>>

RECURSIVE Utf8OfScalars(_)
Utf8OfScalars(cps) ==
  IF cps = <<>> THEN <<>> ELSE Utf8OfScalar(cps[1]) \o Utf8OfScalars(Tail(cps))

\* new TextEncoder().encode(content)
TextEncode(s) == Utf8OfScalars(ScalarValues(s))

\* btoa over a string whose char codes are the bytes: base64 digits 0..63,
\* Pad stands for the padding character '='.
Pad == 64

RECURSIVE Btoa(_)
Btoa(b) ==
  IF b = <<>> THEN <<>>
  ELSE IF Len(b) = 1
       THEN <<b[1] \div 4, (b[1] % 4) * 16, Pad, Pad>>
  ELSE IF Len(b) = 2
       THEN <<b[1] \div 4, ((b[1] % 4) * 16) + (b[2] \div 16), (b[2] % 16) * 4, Pad>>
  ELSE <<b[1] \div 4, ((b[1] % 4) * 16) + (b[2] \div 16),
         ((b[2] % 16) * 4) + (b[3] \div 64), b[3] % 64>>
         \o Btoa(SubSeq(b, 4, Len(b)))

\* (variant) btoa over the string's own code units, the low byte of each
encodeContentCodeUnits(content) == Btoa([i \in 1..Len(content) |-> content[i] % 256])

encodeContent(content) == Btoa(TextEncode(content))

\* githubService.ts has the method again, word for word; pushFile keeps its
\* result in contentBase64.
contentBase64(content) == Btoa(TextEncode(content))

\* The hosting API's side of encoding 'base64': the bytes the digits stand for.
RECURSIVE Atob(_)
Atob(d) ==
  IF Len(d) < 4 THEN <<>>
  ELSE LET b1 == (d[1] * 4) + (d[2] \div 16)
           b2 == ((d[2] % 16) * 16) + (d[3] \div 4)
           b3 == ((d[3] % 4) * 64) + d[4]
       IN IF d[3] = Pad THEN <<b1>>
          ELSE IF d[4] = Pad THEN <<b1, b2>>
          ELSE <<b1, b2, b3>> \o Atob(SubSeq(d, 5, Len(d)))

\* A reader of the repository decodes a blob's bytes as UTF-8 text (UTF-16
\* code units again); a byte that starts no well-formed sequence reads as U+FFFD.
UnitsOfScalar(cp) ==
  IF cp < 65536 THEN <<cp>>
  ELSE <<55296 + ((cp - 65536) \div 1024), 56320 + ((cp - 65536) % 1024)>>

IsCont(b, i) == i <= Len(b) /\ b[i] >= 128 /\ b[i] < 192

RECURSIVE TextDecode(_)
TextDecode(b) ==
  IF b = <<>> THEN <<>>
  ELSE IF b[1] < 128 THEN <<b[1]>> \o TextDecode(Tail(b))
  ELSE IF b[1] >= 194 /\ b[1] < 224 /\ IsCont(b, 2)
       THEN <<(b[1] - 192) * 64 + (b[2] - 128)>> \o TextDecode(SubSeq(b, 3, Len(b)))
  ELSE IF b[1] >= 224 /\ b[1] < 240 /\ IsCont(b, 2) /\ IsCont(b, 3)
          /\ (b[1] - 224) * 4096 + (b[2] - 128) * 64 + (b[3] - 128) >= 2048
          /\ ~IsHighSurrogate((b[1] - 224) * 4096 + (b[2] - 128) * 64 + (b[3] - 128))
          /\ ~IsLowSurrogate((b[1] - 224) * 4096 + (b[2] - 128) * 64 + (b[3] - 128))
       THEN <<(b[1] - 224) * 4096 + (b[2] - 128) * 64 + (b[3] - 128)>>
              \o TextDecode(SubSeq(b, 4, Len(b)))
  ELSE IF b[1] >= 240 /\ b[1] < 245 /\ IsCont(b, 2) /\ IsCont(b, 3) /\ IsCont(b, 4)
          /\ (b[1] - 240) * 262144 + (b[2] - 128) * 4096 + (b[3] - 128) * 64
               + (b[4] - 128) >= 65536
          /\ (b[1] - 240) * 262144 + (b[2] - 128) * 4096 + (b[3] - 128) * 64
               + (b[4] - 128) < 1114112
       THEN UnitsOfScalar((b[1] - 240) * 262144 + (b[2] - 128) * 4096
                            + (b[3] - 128) * 64 + (b[4] - 128))
              \o TextDecode(SubSeq(b, 5, Len(b)))
  ELSE <<65533>> \o TextDecode(Tail(b))

\* ------------------------------------------------------------- git objects
\* Object ids are content hashes; an id is modelled by the content it hashes.
\* Undefined is the JS value undefined: what reading .sha of an error body
\* gives, and a field JSON.stringify leaves out of a request.
Undefined == <<>>

BlobSha(bytes) == <<"blob", bytes>>
TreeSha(entries) == <<"tree", entries>>
\* stamp: the message and committer date that tell two commits of the same
\* tree and parent apart.
CommitSha(tree, parents, stamp) == <<"commit", tree, parents, stamp>>

BytesOf(blob) == blob[2]
EntriesOf(tree) == tree[2]
TreeOf(commit) == commit[2]
ParentsOf(commit) == commit[3]
StampOf(commit) == commit[4]

\* A tree maps every path to a blob id, or to Undefined where it has no file.
EmptyTree == [p \in Paths |-> Undefined]

RECURSIVE IsAncestor(_, _)
IsAncestor(a, c) ==
  \/ a = c
  \/ \E i \in 1..Len(ParentsOf(c)) : IsAncestor(a, ParentsOf(c)[i])

\* Branch main before any publish: one commit whose tree is {README.md: "H"}.
Blob0 == BlobSha(TextEncode(<<72>>))
Tree0 == TreeSha([EmptyTree EXCEPT !["README.md"] = Blob0])
Commit0 == CommitSha(Tree0, <<>>, "init")

VARIABLES
  ref,       \* refs/heads/main on the hosting provider: the tip commit id
  blobs,     \* blob ids the provider stores
  trees,     \* tree ids the provider stores
  commits,   \* commit ids the provider stores
  reflog,    \* accepted ref updates, in order: [from, to, by]
  call,      \* call[c]: locals of invocation c of pushAtomicUpdate
  wire,      \* wire[c]: requests sent and responses received by c, in order
  faults,    \* failures injected so far
  others,    \* pushes by other clients so far
  codec,     \* one content string on its way into a request body and back
  modal,     \* one modal dialog, the page behind it and the keyboard focus
  app        \* state of the App component and its handlers under way

vars == <<ref, blobs, trees, commits, reflog, call, wire, faults, others, codec, modal, app>>

server == <<ref, blobs, trees, commits, reflog>>

\* What a publish to the repository leaves alone.
aside == <<codec, modal, app>>

\* No content string under way.
NoCodec == [at |-> "none"]

\* No modal component mounted.
NoModal == [version |-> "none"]

\* No App mounted.
NoApp == [pc |-> "none"]

IdleCall ==
  [pc |-> "idle", files |-> <<>>, latestCommitSha |-> Undefined,
   baseTreeSha |-> Undefined, pending |-> {}, blobSha |-> <<>>,
   treeEntries |-> <<>>, newTreeSha |-> Undefined, newCommitSha |-> Undefined,
   ok |-> FALSE, failed |-> {}]

\* The repository with its first commit, no invocation started.
InitRepository ==
  /\ ref = Commit0
  /\ blobs = {Blob0}
  /\ trees = {Tree0}
  /\ commits = {Commit0}
  /\ reflog = <<>>
  /\ call = [c \in Calls |-> IdleCall]
  /\ wire = [c \in Calls |-> <<>>]
  /\ faults = 0
  /\ others = 0

Init ==
  /\ InitRepository
  /\ codec = NoCodec
  /\ modal = NoModal
  /\ app = NoApp

\* What one fetch can come to: a 2xx response, a non-2xx response (the
\* promise still resolves), or a rejected promise (network error).
Outcomes == {"ok", "http", "net"}

Inject(o) ==
  IF o = "ok" THEN faults' = faults
  ELSE faults < MaxFaults /\ faults' = faults + 1

Exchange(c, events) == wire' = [wire EXCEPT ![c] = @ \o events]

Response(op, i, o, sha) == [dir |-> "resp", op |-> op, i |-> i, status |-> o, sha |-> sha]

\* ------------------------------------------------------ the hosting API
HasDuplicatePaths(es) ==
  \E i, j \in 1..Len(es) : i # j /\ es[i].path = es[j].path

\* Entries laid over a base tree in request order.
RECURSIVE Overlay(_, _)
Overlay(base, es) ==
  IF es = <<>> THEN base
  ELSE Overlay([base EXCEPT ![es[1].path] = es[1].sha], Tail(es))

\* POST git/blobs {content, encoding: 'base64'}: the stored blob's id.
ApiCreateBlob(req) == BlobSha(Atob(req.content))

\* POST git/trees {base_tree, tree}: the new tree's id, or Undefined for 422
\* (an entry without a sha, an unknown object).  Without base_tree the tree
\* holds the entries alone.  Whether an empty entry list
\* or a repeated path is accepted cannot be told from the source: lenient
\* picks the outcome.
ApiCreateTree(req, lenient) ==
  IF /\ req.base_tree = Undefined \/ req.base_tree \in trees
     /\ \A i \in 1..Len(req.tree) : req.tree[i].sha \in blobs
     /\ (req.tree = <<>> \/ HasDuplicatePaths(req.tree)) => lenient
  THEN TreeSha(Overlay(IF req.base_tree = Undefined THEN EmptyTree
                       ELSE EntriesOf(req.base_tree), req.tree))
  ELSE Undefined

\* POST git/commits {message, tree, parents}: the new commit's id, or
\* Undefined for 422 (no tree, unknown tree or parent).
ApiCreateCommit(req, stamp) ==
  IF /\ req.tree \in trees
     /\ \A i \in 1..Len(req.parents) : req.parents[i] \in commits
  THEN CommitSha(req.tree, req.parents, stamp)
  ELSE Undefined

\* PATCH git/refs/heads/main {sha, force}: accepted when the commit exists
\* and the move is a fast-forward (or forced).
ApiAcceptsRefUpdate(req) ==
  /\ req.sha \in commits
  /\ req.force \/ IsAncestor(ref, req.sha)

\* --------------------------------------------------- pushAtomicUpdate
GetRefRequest == [dir |-> "req", op |-> "GET ref"]

GetCommitRequest(k) == [dir |-> "req", op |-> "GET commit", sha |-> k.latestCommitSha]

BlobRequest(k, i) ==
  [dir |-> "req", op |-> "POST blobs", i |-> i,
   content |-> encodeContent(k.files[i].content), encoding |-> "base64"]

BlobRequests(k) == [i \in 1..Len(k.files) |-> BlobRequest(k, i)]

\* (variant) entries paired with the blob ids in reverse order
TreeEntriesReversed(k) ==
  [i \in 1..Len(k.files) |->
     [path |-> k.files[i].path, mode |-> "100644", type |-> "blob",
      sha |-> k.blobSha[Len(k.files) + 1 - i]]]

\* The value each map callback resolves to, collected by Promise.all in input
\* order.
TreeEntries(k) ==
  [i \in 1..Len(k.files) |->
     [path |-> k.files[i].path, mode |-> "100644", type |-> "blob", sha |-> k.blobSha[i]]]

\* (variant) Promise.race: resolved as soon as one blob promise has resolved
BlobsRaced(k) == k.pending # 1..Len(k.files) \/ k.files = <<>>

\* Promise.all resolves once every blob promise has resolved.
BlobsJoined(k) == k.pending = {}

\* (variant) the request without base_tree
TreeRequestNoBase(k) ==
  [dir |-> "req", op |-> "POST trees", base_tree |-> Undefined, tree |-> TreeEntries(k)]

TreeRequest(k) ==
  [dir |-> "req", op |-> "POST trees", base_tree |-> k.baseTreeSha, tree |-> TreeEntries(k)]

\* (variant) newTreeData.sha || baseTreeSha
CommitRequestFallback(k) ==
  [dir |-> "req", op |-> "POST commits",
   tree |-> IF k.newTreeSha # Undefined THEN k.newTreeSha ELSE k.baseTreeSha,
   parents |-> <<k.latestCommitSha>>]

\* (variant) a commit without parents
CommitRequestNoParent(k) ==
  [dir |-> "req", op |-> "POST commits", tree |-> k.newTreeSha, parents |-> <<>>]

CommitRequest(k) ==
  [dir |-> "req", op |-> "POST commits", tree |-> k.newTreeSha,
   parents |-> <<k.latestCommitSha>>]

\* (variant) force: true
RefRequestForced(k) ==
  [dir |-> "req", op |-> "PATCH ref", sha |-> k.newCommitSha, force |-> TRUE]

\* (variant) the ref moved to the commit read at the start
RefRequestOfBase(k) ==
  [dir |-> "req", op |-> "PATCH ref", sha |-> k.latestCommitSha, force |-> FALSE]

\* (variant) the ref moved to the new commit's parent
RefRequestOfParent(k) ==
  [dir |-> "req", op |-> "PATCH ref",
   sha |-> IF k.newCommitSha = Undefined THEN Undefined ELSE ParentsOf(k.newCommitSha)[1],
   force |-> TRUE]

RefRequest(k) ==
  [dir |-> "req", op |-> "PATCH ref", sha |-> k.newCommitSha, force |-> FALSE]

\* Invocation with batch fs, up to the first response: GET refs/heads/main and
\* refData.object.sha, which throws a TypeError on an error body.
ReadRef(c, fs, o) ==
  /\ call[c].pc = "idle"
  /\ Inject(o)
  /\ Exchange(c, <<GetRefRequest,
                   Response("GET ref", 0, o, IF o = "ok" THEN ref ELSE Undefined)>>)
  /\ call' = [call EXCEPT ![c] =
       IF o = "ok"
       THEN [@ EXCEPT !.pc = "readCommit", !.files = fs, !.latestCommitSha = ref]
       ELSE [@ EXCEPT !.pc = "thrown", !.files = fs, !.failed = {"readRef"}]]
  /\ UNCHANGED <<server, others, aside>>

\* (variant) commitData.tree?.sha: an error body does not throw
ReadCommitLenient(c, o) ==
  LET k == call[c]
      k2 == [k EXCEPT !.pc = "blobs",
                      !.baseTreeSha = IF o = "ok" THEN TreeOf(k.latestCommitSha) ELSE Undefined,
                      !.pending = 1..Len(k.files),
                      !.blobSha = [i \in 1..Len(k.files) |-> Undefined],
                      !.failed = IF o = "ok" THEN @ ELSE {"readCommit"}]
  IN /\ k.pc = "readCommit"
     /\ Inject(o)
     /\ IF o # "net"
        THEN /\ call' = [call EXCEPT ![c] = k2]
             /\ Exchange(c, <<GetCommitRequest(k),
                              Response("GET commit", 0, o, k2.baseTreeSha)>>
                            \o BlobRequests(k2))
        ELSE /\ call' = [call EXCEPT ![c] = [k EXCEPT !.pc = "thrown", !.failed = {"readCommit"}]]
             /\ Exchange(c, <<GetCommitRequest(k), Response("GET commit", 0, o, Undefined)>>)
     /\ UNCHANGED <<server, others, aside>>

\* GET git/commits/<sha>, commitData.tree.sha, and the files.map that starts
\* one blob request per file.
ReadCommit(c, o) ==
  LET k == call[c]
      k2 == [k EXCEPT !.pc = "blobs", !.baseTreeSha = TreeOf(k.latestCommitSha),
                      !.pending = 1..Len(k.files),
                      !.blobSha = [i \in 1..Len(k.files) |-> Undefined]]
  IN /\ k.pc = "readCommit"
     /\ Inject(o)
     /\ IF o = "ok"
        THEN /\ call' = [call EXCEPT ![c] = k2]
             /\ Exchange(c, <<GetCommitRequest(k),
                              Response("GET commit", 0, o, k2.baseTreeSha)>>
                            \o BlobRequests(k2))
        ELSE /\ call' = [call EXCEPT ![c] = [k EXCEPT !.pc = "thrown", !.failed = {"readCommit"}]]
             /\ Exchange(c, <<GetCommitRequest(k), Response("GET commit", 0, o, Undefined)>>)
     /\ UNCHANGED <<server, others, aside>>

\* One blob request completes.  A rejected fetch rejects Promise.all and the
\* invocation throws; the sibling requests stay in flight.
BlobDone(c, i, o) ==
  LET k == call[c]
      sha == IF o = "ok" THEN ApiCreateBlob(BlobRequest(k, i)) ELSE Undefined
  IN /\ i \in k.pending
     /\ Inject(o)
     /\ blobs' = IF o = "ok" THEN blobs \cup {sha} ELSE blobs
     /\ Exchange(c, <<Response("POST blobs", i, o, sha)>>)
     /\ call' = [call EXCEPT ![c] =
          IF k.pc # "blobs" THEN [k EXCEPT !.pending = @ \ {i}]
          ELSE IF o = "net"
               THEN [k EXCEPT !.pending = @ \ {i}, !.pc = "thrown", !.failed = @ \cup {"blob"}]
               ELSE [k EXCEPT !.pending = @ \ {i}, !.blobSha[i] = sha,
                              !.failed = IF o = "ok" THEN @ ELSE @ \cup {"blob"}]]
     /\ UNCHANGED <<ref, trees, commits, reflog, others, aside>>

\* Promise.all has resolved: POST git/trees with base_tree and the entries.
CreateTree(c, o, lenient) ==
  LET k == call[c]
      req == TreeRequest(k)
      sha == IF o = "ok" THEN ApiCreateTree(req, lenient) ELSE Undefined
  IN /\ k.pc = "blobs"
     /\ BlobsJoined(k)
     /\ Inject(o)
     /\ trees' = IF sha # Undefined THEN trees \cup {sha} ELSE trees
     /\ Exchange(c, <<req, Response("POST trees", 0, o, sha)>>)
     /\ call' = [call EXCEPT ![c] =
          IF o = "net"
          THEN [k EXCEPT !.pc = "thrown", !.treeEntries = req.tree, !.failed = @ \cup {"tree"}]
          ELSE [k EXCEPT !.pc = "createCommit", !.treeEntries = req.tree, !.newTreeSha = sha,
                         !.failed = IF sha # Undefined THEN @ ELSE @ \cup {"tree"}]]
     /\ UNCHANGED <<ref, blobs, commits, reflog, others, aside>>

\* POST git/commits with the new tree and the tip read at the start as parent.
CreateCommit(c, o) ==
  LET k == call[c]
      req == CommitRequest(k)
      sha == IF o = "ok" THEN ApiCreateCommit(req, c) ELSE Undefined
  IN /\ k.pc = "createCommit"
     /\ Inject(o)
     /\ commits' = IF sha # Undefined THEN commits \cup {sha} ELSE commits
     /\ Exchange(c, <<req, Response("POST commits", 0, o, sha)>>)
     /\ call' = [call EXCEPT ![c] =
          IF o = "net"
          THEN [k EXCEPT !.pc = "thrown", !.failed = @ \cup {"commit"}]
          ELSE [k EXCEPT !.pc = "updateRef", !.newCommitSha = sha,
                         !.failed = IF sha # Undefined THEN @ ELSE @ \cup {"commit"}]]
     /\ UNCHANGED <<ref, blobs, trees, reflog, others, aside>>

\* (variant) the ref update sent again after a rejection
UpdateRefRetrying(c, o) ==
  LET k == call[c]
      req == RefRequest(k)
      accepted == o = "ok" /\ ApiAcceptsRefUpdate(req)
  IN /\ k.pc = "updateRef"
     /\ Inject(o)
     /\ ref' = IF accepted THEN req.sha ELSE ref
     /\ reflog' = IF accepted
                  THEN Append(reflog, [from |-> ref, to |-> req.sha, by |-> c])
                  ELSE reflog
     /\ Exchange(c, <<req, Response("PATCH ref", 0, IF o = "ok" /\ ~accepted THEN "http" ELSE o,
                                     IF accepted THEN req.sha ELSE Undefined)>>)
     /\ call' = [call EXCEPT ![c] =
          IF o = "net"
          THEN [k EXCEPT !.pc = "thrown", !.failed = @ \cup {"pointer"}]
          ELSE [k EXCEPT !.pc = IF accepted THEN "returned" ELSE "updateRef", !.ok = accepted,
                         !.failed = IF accepted THEN @ ELSE @ \cup {"pointer"}]]
     /\ UNCHANGED <<blobs, trees, commits, others, aside>>

\* return fetch(PATCH git/refs/heads/main): the Response is handed to the
\* caller as it is, whatever its status.
UpdateRef(c, o) ==
  LET k == call[c]
      req == RefRequest(k)
      accepted == o = "ok" /\ ApiAcceptsRefUpdate(req)
  IN /\ k.pc = "updateRef"
     /\ Inject(o)
     /\ ref' = IF accepted THEN req.sha ELSE ref
     /\ reflog' = IF accepted
                  THEN Append(reflog, [from |-> ref, to |-> req.sha, by |-> c])
                  ELSE reflog
     /\ Exchange(c, <<req, Response("PATCH ref", 0, IF o = "ok" /\ ~accepted THEN "http" ELSE o,
                                     IF accepted THEN req.sha ELSE Undefined)>>)
     /\ call' = [call EXCEPT ![c] =
          IF o = "net"
          THEN [k EXCEPT !.pc = "thrown", !.failed = @ \cup {"pointer"}]
          ELSE [k EXCEPT !.pc = "returned", !.ok = accepted,
                         !.failed = IF accepted THEN @ ELSE @ \cup {"pointer"}]]
     /\ UNCHANGED <<blobs, trees, commits, others, aside>>

\* Another client of the hosting provider pushes a new version of README.md
\* on top of the current tip (a fast-forward the provider accepts).
OtherWriterPush ==
  LET blob == BlobSha(TextEncode(<<20013, 72>>))
      tree == TreeSha([EntriesOf(TreeOf(ref)) EXCEPT !["README.md"] = blob])
      commit == CommitSha(tree, <<ref>>, "other")
  IN /\ others < MaxOtherPushes
     /\ others' = others + 1
     /\ blobs' = blobs \cup {blob}
     /\ trees' = trees \cup {tree}
     /\ commits' = commits \cup {commit}
     /\ ref' = commit
     /\ reflog' = Append(reflog, [from |-> ref, to |-> commit, by |-> "other"])
     /\ UNCHANGED <<call, wire, faults, aside>>

\* The steps of invocation c, its batch drawn from inputs.
pushAtomicUpdate(c, inputs) ==
  \/ \E fs \in inputs, o \in Outcomes : ReadRef(c, fs, o)
  \/ \E o \in Outcomes : ReadCommit(c, o)
  \/ \E i \in 1..MaxFiles, o \in Outcomes : BlobDone(c, i, o)
  \/ \E o \in Outcomes, lenient \in BOOLEAN : CreateTree(c, o, lenient)
  \/ \E o \in Outcomes : CreateCommit(c, o)
  \/ \E o \in Outcomes : UpdateRef(c, o)

\* One invocation, with other clients pushing to the branch meanwhile.
Next ==
  \/ pushAtomicUpdate("A", Batches)
  \/ OtherWriterPush

Spec == Init /\ [][Next]_vars

\* Two invocations running concurrently, each publishing one file.
NextPair == \E c \in Calls : pushAtomicUpdate(c, {<<f>> : f \in Files})

SpecPair == Init /\ [][NextPair]_vars

\* Two invocations, each publishing one file, with other clients pushing to
\* the branch meanwhile.
NextPairShared ==
  \/ NextPair
  \/ OtherWriterPush

SpecPairShared == Init /\ [][NextPairShared]_vars

\* What the caller of a finished invocation holds: the Response of the ref
\* update, returned as it is, or the error that came out of an await (a
\* rejected fetch, or reading .sha of a member an error body does not have).
Outcome(c) ==
  IF call[c].pc = "returned"
  THEN [kind |-> "Response", ok |-> call[c].ok]
  ELSE [kind |-> "TypeError",
        message |-> IF \E m \in 1..Len(wire[c]) :
                          wire[c][m].dir = "resp" /\ wire[c][m].status = "net"
                    THEN "Failed to fetch"
                    ELSE "Cannot read properties of undefined (reading 'sha')"]

\* ------------------------------------------- one content string, there and back
\* Code units of "H", U+00E9, U+4E2D and the two halves of U+1F600.
Units == {72, 233, 20013, 55357, 56832}

Strings == SeqsUpTo(Units, MaxLen)

InitCodec ==
  /\ InitRepository
  /\ codec \in {[at |-> "given", by |-> "nobody", content |-> str, base64 |-> <<>>, text |-> <<>>] :
                  str \in Strings}
  /\ modal = NoModal
  /\ app = NoApp

\* pushAtomicUpdate puts encodeContent(file.content) into a blob request.
EncodeForBlob ==
  /\ codec.at = "given"
  /\ codec' = [codec EXCEPT !.at = "sent", !.by = "gcsService",
                             !.base64 = encodeContent(codec.content)]
  /\ UNCHANGED <<server, call, wire, faults, others, modal, app>>

\* pushFile puts contentBase64 into the body of PUT contents/{path}.
EncodeForPushFile ==
  /\ codec.at = "given"
  /\ codec' = [codec EXCEPT !.at = "sent", !.by = "githubService",
                             !.base64 = contentBase64(codec.content)]
  /\ UNCHANGED <<server, call, wire, faults, others, modal, app>>

\* The provider stores the bytes the base64 text stands for; a reader decodes
\* them as UTF-8.
ReadBack ==
  /\ codec.at = "sent"
  /\ codec' = [codec EXCEPT !.at = "read", !.text = TextDecode(Atob(codec.base64))]
  /\ UNCHANGED <<server, call, wire, faults, others, modal, app>>

NextCodec ==
  \/ EncodeForBlob
  \/ EncodeForPushFile
  \/ ReadBack

SpecCodec == InitCodec /\ [][NextCodec]_vars

\* ------------------------------------------------ modal dialogs and the focus
\* The modal components of the repository: the two NeuralModal sources and
\* Modal.
Versions == {"NeuralModal.tsx", "part_007", "Modal.tsx"}

\* DOM elements document.activeElement can be: two controls of the page
\* behind the modal (the first is the one that opens it), the body, the dialog
\* container (tabIndex -1) and the controls inside the dialog in document
\* order; Control(1) is the close button of the header.
Trigger == <<"page", 1>>
PageControl == <<"page", 2>>
Body == <<"body", 0>>
Container == <<"dialog", 0>>
Control(i) == <<"control", i>>
Null == <<"null", 0>>

\* What the focusable selector matches inside the dialog: the close button,
\* then what content and footer hold; a control may be disabled.
ControlLists ==
  {<<"enabled">> \o t : t \in SeqsUpTo({"enabled", "disabled"}, MaxControls)}

\* document.body.style.overflow before any modal was opened.
PageOverflows == {"", "scroll", "hidden"}

InitModal ==
  /\ InitRepository
  /\ codec = NoCodec
  /\ modal \in {[version |-> v, controls |-> cs, isOpen |-> FALSE, focus |-> f,
                 overflow |-> ov, savedFocus |-> Null, originalOverflow |-> "",
                 timer |-> FALSE, opener |-> Null, before |-> ov,
                 last |-> [ev |-> "mount", from |-> f, to |-> f]] :
                  v \in Versions, cs \in ControlLists, f \in {Trigger, PageControl},
                  ov \in PageOverflows}
  /\ app = NoApp

Inside(m) == {Container} \cup {Control(i) : i \in 1..Len(m.controls)}

\* The selector's matches that are not disabled, in document order.
EnabledControls(m) ==
  SelectSeq([i \in 1..Len(m.controls) |-> i], LAMBDA i : m.controls[i] = "enabled")

\* element.focus(): a disabled control does not take the focus.
FocusOn(m, el) ==
  IF \E i \in 1..Len(m.controls) : el = Control(i) /\ m.controls[i] = "disabled"
  THEN m.focus
  ELSE el

\* part_007, handleTabKey: first and last of everything the selector matches.
handleTabKey(m, shiftKey) ==
  LET firstElement == Control(1)
      lastElement == Control(Len(m.controls))
  IN IF shiftKey
     THEN IF m.focus = firstElement
          THEN [focus |-> FocusOn(m, lastElement), defaultPrevented |-> TRUE]
          ELSE [focus |-> m.focus, defaultPrevented |-> FALSE]
     ELSE IF m.focus = lastElement
          THEN [focus |-> FocusOn(m, firstElement), defaultPrevented |-> TRUE]
          ELSE [focus |-> m.focus, defaultPrevented |-> FALSE]

\* NeuralModal.tsx, handleKeyboardInteraction on Tab: first and last of the
\* matches that are neither disabled nor hidden; Shift+Tab wraps from the
\* container too.
handleKeyboardInteraction(m, shiftKey) ==
  LET focusableElements == EnabledControls(m)
      firstElement == Control(focusableElements[1])
      lastElement == Control(focusableElements[Len(focusableElements)])
  IN IF focusableElements = <<>>
     THEN [focus |-> m.focus, defaultPrevented |-> TRUE]
     ELSE IF shiftKey
          THEN IF m.focus = firstElement \/ m.focus = Container
               THEN [focus |-> FocusOn(m, lastElement), defaultPrevented |-> TRUE]
               ELSE [focus |-> m.focus, defaultPrevented |-> FALSE]
          ELSE IF m.focus = lastElement
               THEN [focus |-> FocusOn(m, firstElement), defaultPrevented |-> TRUE]
               ELSE [focus |-> m.focus, defaultPrevented |-> FALSE]

\* The keydown listeners the open modal has on window.
OnTab(m, shiftKey) ==
  IF m.version = "part_007" THEN handleTabKey(m, shiftKey)
  ELSE IF m.version = "NeuralModal.tsx" THEN handleKeyboardInteraction(m, shiftKey)
  ELSE [focus |-> m.focus, defaultPrevented |-> FALSE]

\* Sequential focus navigation of the document: the page's controls, then the
\* enabled controls of the dialog, which is rendered last; the container
\* (tabIndex -1) is no stop of its own but a starting point.
TabOrder(m) ==
  <<Trigger, PageControl>> \o [j \in 1..Len(EnabledControls(m)) |-> Control(EnabledControls(m)[j])]

\* Where Tab (Shift+Tab) takes the focus when no listener prevents the default.
DefaultTab(m, shiftKey) ==
  LET order == TabOrder(m)
      n == Len(order)
      at == CHOOSE j \in 1..n : order[j] = m.focus
  IN IF m.focus = Container
     THEN IF shiftKey THEN PageControl ELSE order[3]
     ELSE IF m.focus = Body
          THEN IF shiftKey THEN order[n] ELSE order[1]
          ELSE IF shiftKey
               THEN order[IF at = 1 THEN n ELSE at - 1]
               ELSE order[IF at = n THEN 1 ELSE at + 1]

\* (variant) the cleanup leaves the style as it is
CleanupOverflowKept(m) == m.overflow

\* What the effect's cleanup writes to document.body.style.overflow.
CleanupOverflow(m) ==
  IF m.version = "NeuralModal.tsx" THEN m.originalOverflow
  ELSE IF m.version = "part_007" THEN ""
  ELSE "unset"

\* The body of the effect when isOpen is true.
useEffect(m) ==
  IF m.version = "NeuralModal.tsx"
  THEN [m EXCEPT !.savedFocus = m.focus, !.originalOverflow = m.overflow,
                 !.overflow = "hidden", !.timer = TRUE]
  ELSE IF m.version = "part_007"
       THEN [m EXCEPT !.savedFocus = m.focus, !.overflow = "hidden", !.timer = TRUE]
       ELSE [m EXCEPT !.overflow = "hidden"]

\* The function the effect returned.
cleanup(m) ==
  IF m.version = "Modal.tsx"
  THEN [m EXCEPT !.overflow = CleanupOverflow(m)]
  ELSE [m EXCEPT !.overflow = CleanupOverflow(m), !.timer = FALSE,
                 !.focus = IF m.savedFocus # Null THEN m.savedFocus ELSE m.focus]

Moved(m, m2, ev) == [m2 EXCEPT !.last = [ev |-> ev, from |-> m.focus, to |-> m2.focus]]

\* The parent renders the modal with isOpen true; the dialog is mounted and
\* the effect runs.
Open ==
  /\ ~modal.isOpen
  /\ modal' = Moved(modal, useEffect([modal EXCEPT !.isOpen = TRUE, !.opener = modal.focus,
                                                   !.before = modal.overflow]), "open")
  /\ UNCHANGED <<server, call, wire, faults, others, codec, app>>

\* The timeout set by the effect fires: initial focus.
InitialFocus ==
  /\ modal.isOpen
  /\ modal.timer
  /\ modal' = Moved(modal,
                    [modal EXCEPT !.timer = FALSE,
                                  !.focus = IF modal.version = "part_007" THEN Container
                                            ELSE FocusOn(modal, Control(1))],
                    "timer")
  /\ UNCHANGED <<server, call, wire, faults, others, codec, app>>

\* The user presses Tab or Shift+Tab while the modal is open.
KeyTab(shiftKey) ==
  LET handled == OnTab(modal, shiftKey)
  IN /\ modal.isOpen
     /\ modal' = Moved(modal,
                       [modal EXCEPT !.focus = IF handled.defaultPrevented THEN handled.focus
                                               ELSE DefaultTab(modal, shiftKey)],
                       IF shiftKey THEN "Shift+Tab" ELSE "Tab")
     /\ UNCHANGED <<server, call, wire, faults, others, codec, app>>

\* The user clicks inside the dialog: on an enabled control, or on the
\* surface, which gives the focus to the container.
Click(el) ==
  /\ modal.isOpen
  /\ el \in Inside(modal)
  /\ FocusOn(modal, el) = el
  /\ modal' = Moved(modal, [modal EXCEPT !.focus = el], "click")
  /\ UNCHANGED <<server, call, wire, faults, others, codec, app>>

\* The parent renders again while nothing about the modal changed: the inline
\* arrow it passes as onClose is a new function, the callbacks that depend on
\* it are new, and the effect is cleaned up and run again.
ParentRerender ==
  /\ modal' = Moved(modal,
                    IF modal.isOpen THEN useEffect(cleanup(modal))
                    ELSE IF modal.version = "Modal.tsx" THEN cleanup(modal)
                    ELSE modal,
                    "rerender")
  /\ UNCHANGED <<server, call, wire, faults, others, codec, app>>

\* onClose (Escape, the close button, the backdrop): the parent renders the
\* modal with isOpen false; the dialog leaves the document, a focus inside it
\* falls to the body, and the cleanup runs.
Close ==
  /\ modal.isOpen
  /\ modal' = Moved(modal,
                    cleanup([modal EXCEPT !.isOpen = FALSE,
                                          !.focus = IF modal.focus \in Inside(modal) THEN Body
                                                    ELSE modal.focus]),
                    "close")
  /\ UNCHANGED <<server, call, wire, faults, others, codec, app>>

NextModal ==
  \/ Open
  \/ InitialFocus
  \/ \E shiftKey \in BOOLEAN : KeyTab(shiftKey)
  \/ \E i \in 1..(MaxControls + 1) : Click(Control(i))
  \/ Click(Container)
  \/ ParentRerender
  \/ Close

SpecModal == InitModal /\ [][NextModal]_vars

\* ------------------------------------------------------- App and its handlers
\* The text inputs handleGitHubPush wants non-empty.
GithubFields == {"githubToken", "githubOwner", "githubRepoName"}

\* What a generation can return: up to MaxGenerated files, no path twice.
GeneratedLists ==
  {fs \in SeqsUpTo({File(p, <<72>>) : p \in Paths}, MaxGenerated) : ~HasDuplicatePaths(fs)}

\* The tabs whose panels hold the handlers modelled here: the prompt and its
\* run button (WORKSPACE), the file explorer and editor (EDITOR), the GitHub
\* form (DEPLOY).
Tabs == {"WORKSPACE", "EDITOR", "DEPLOY"}

\* result.projectName: absent (falsy) or a name.
ResultNames == {"", "generated"}

\* App as useState initialises it.  traffic, landed and alert are not state of
\* App: the requests and responses of the GitHub push that started last, the
\* paths the provider committed for it, in order, the alert() of the handler
\* that ran last (none: ""), and whether some push has succeeded since mount.
InitApp ==
  /\ InitRepository
  /\ codec = NoCodec
  /\ modal = NoModal
  /\ app = [pc |-> "idle", filled |-> {}, currentFiles |-> <<>>, isGenerating |-> FALSE,
            githubInitReadme |-> TRUE, isSyncingGithub |-> FALSE, githubStatus |-> "",
            githubRepoUrl |-> "null", closure |-> <<>>, filesToPush |-> <<>>,
            results |-> <<>>, alert |-> "", traffic |-> <<>>, landed |-> <<>>,
            synced |-> FALSE, selectedFileIndex |-> 0, activeTab |-> "WORKSPACE",
            projectName |-> "AGENT-X"]

\* The user fills in or empties one of the GitHub inputs.
EditGithubField(f) ==
  /\ app.pc # "none"
  /\ app.activeTab = "DEPLOY"
  /\ app' = [app EXCEPT !.filled = IF f \in @ THEN @ \ {f} ELSE @ \cup {f}]
  /\ UNCHANGED <<server, call, wire, faults, others, codec, modal>>

\* The Auto-Generate README toggle.
ToggleInitReadme ==
  /\ app.pc # "none"
  /\ app.activeTab = "DEPLOY"
  /\ app' = [app EXCEPT !.githubInitReadme = ~@]
  /\ UNCHANGED <<server, call, wire, faults, others, codec, modal>>

\* handleRun with a non-blank input, up to the await (the button is disabled
\* while a generation runs).
handleRun ==
  /\ app.pc # "none"
  /\ app.activeTab = "WORKSPACE"
  /\ ~app.isGenerating
  /\ app' = [app EXCEPT !.isGenerating = TRUE, !.alert = ""]
  /\ UNCHANGED <<server, call, wire, faults, others, codec, modal>>

\* A sidebar item (or a command palette item) is clicked.
SetActiveTab(t) ==
  /\ app.pc # "none"
  /\ app' = [app EXCEPT !.activeTab = t]
  /\ UNCHANGED <<server, call, wire, faults, others, codec, modal>>

\* A file explorer button: one per entry of currentFiles, numbered from 0.
SelectFile(i) ==
  /\ app.activeTab = "EDITOR"
  /\ i < Len(app.currentFiles)
  /\ app' = [app EXCEPT !.selectedFileIndex = i]
  /\ UNCHANGED <<server, call, wire, faults, others, codec, modal>>

\* (variant) the result is cleared and the editor opened ahead of the await
RunResultClearedFirst(a, ok, fs, name) ==
  [a EXCEPT !.isGenerating = FALSE,
            !.currentFiles = IF ok THEN fs ELSE <<>>,
            !.projectName = IF ok /\ name # "" THEN name ELSE @,
            !.activeTab = "EDITOR",
            !.alert = IF ok THEN @ ELSE "System Overload"]

\* What handleRun does once generateFullStackProject has settled: the four
\* setters of the try block when it resolved, the alert of the catch when it
\* threw, and the finally block.  selectedFileIndex is not touched.
RunResult(a, ok, fs, name) ==
  [a EXCEPT !.isGenerating = FALSE,
            !.currentFiles = IF ok THEN fs ELSE @,
            !.projectName = IF ok /\ name # "" THEN name ELSE @,
            !.activeTab = IF ok THEN "EDITOR" ELSE @,
            !.alert = IF ok THEN @ ELSE "System Overload"]

\* generateFullStackProject settles: with files fs and project name name, or
\* it threw (ok FALSE).
GenerationSettled(ok, fs, name) ==
  /\ app.pc # "none"
  /\ app.isGenerating
  /\ app' = RunResult(app, ok, fs, name)
  /\ UNCHANGED <<server, call, wire, faults, others, codec, modal>>

\* const filesToPush = [...currentFiles], with the README entry pushed onto it
\* when githubInitReadme is set; both read from the render the handler was
\* created in.
PreparedFiles(currentFiles, githubInitReadme) ==
  IF githubInitReadme
  THEN Append(currentFiles, File("README.md", <<35>>))
  ELSE currentFiles

\* (variant) the guard on currentFiles.length left out
ValidatedWithoutFiles(a) == a.filled = GithubFields

\* The four guards at the head of handleGitHubPush all pass.
Validated(a) == a.filled = GithubFields /\ a.currentFiles # <<>>

\* The alert of the first guard that fails.
GuardAlert(a) ==
  IF "githubToken" \notin a.filled THEN "GitHub Personal Access Token is required."
  ELSE IF "githubOwner" \notin a.filled THEN "GitHub Namespace (Owner) is required."
  ELSE IF "githubRepoName" \notin a.filled THEN "Repository Name is required."
  ELSE "Generate code files before pushing to repository."

CreateRepositoryRequest == [dir |-> "req", op |-> "POST user/repos", path |-> "", ok |-> TRUE]

\* pushFile's PUT contents/{path}; no sha is passed by initializeAndPush.
PutRequest(f) == [dir |-> "req", op |-> "PUT contents", path |-> f.path, ok |-> TRUE]

Settled(op, path, ok) == [dir |-> "resp", op |-> op, path |-> path, ok |-> ok]

\* (variant) the status resets without setGithubRepoUrl(null)
SyncStartedKeepingUrl(a) ==
  [a EXCEPT !.pc = "createRepository", !.isSyncingGithub = TRUE,
            !.githubStatus = "Provisioning Repository Shard...",
            !.closure = <<a.currentFiles, a.githubInitReadme>>,
            !.filesToPush = <<>>, !.results = <<>>,
            !.traffic = <<CreateRepositoryRequest>>, !.landed = <<>>,
            !.alert = ""]

\* After the guards: the status resets, and createRepository has sent its
\* request.
SyncStarted(a) ==
  [a EXCEPT !.pc = "createRepository", !.isSyncingGithub = TRUE,
            !.githubStatus = "Provisioning Repository Shard...",
            !.githubRepoUrl = "null",
            !.closure = <<a.currentFiles, a.githubInitReadme>>,
            !.filesToPush = <<>>, !.results = <<>>,
            !.traffic = <<CreateRepositoryRequest>>, !.landed = <<>>,
            !.alert = ""]

\* handleGitHubPush up to its first await (the button is disabled while
\* isSyncingGithub).
handleGitHubPush ==
  /\ app.activeTab = "DEPLOY"
  /\ app.pc = "idle"
  /\ app' = IF Validated(app) THEN SyncStarted(app)
            ELSE [app EXCEPT !.alert = GuardAlert(app)]
  /\ UNCHANGED <<server, call, wire, faults, others, codec, modal>>

\* (variant) createRepository awaited in the outer try alone
StatusAfterCreateUncaught(ok) ==
  IF ok THEN "Repository Created. Initiating Shard Push..."
  ELSE "Pipeline Error"

\* The inner try/catch around createRepository: either way a status.
StatusAfterCreate(ok) ==
  IF ok THEN "Repository Created. Initiating Shard Push..."
  ELSE "Updating Existing Repository Shard..."

\* (variant) the files taken from the end of the list
NextFileFromEnd(files, results) == files[Len(files) - Len(results)]

\* for (const file of files): the file whose turn it is.
NextFile(files, results) == files[Len(results) + 1]

\* createRepository settles (a failure is caught and only changes the
\* status), the batch is prepared and initializeAndPush starts on it: the
\* first pushFile sends its request.
CreateRepositorySettled(ok) ==
  LET files == PreparedFiles(app.closure[1], app.closure[2])
  IN /\ app.pc = "createRepository"
     /\ app' = [app EXCEPT !.pc = "initializeAndPush",
                           !.githubStatus = StatusAfterCreate(ok),
                           !.filesToPush = files,
                           !.traffic = @ \o <<Settled("POST user/repos", "", ok),
                                              PutRequest(NextFile(files, <<>>))>>]
     /\ UNCHANGED <<server, call, wire, faults, others, codec, modal>>

\* (variant) the response's status ignored
PushFileNeverThrows(ok) == FALSE

\* pushFile: if (!response.ok) throw; a rejected fetch throws as well.
PushFileThrows(ok) == ~ok

\* (variant) no finally block
FinallyLeftOut(a) == [a EXCEPT !.pc = "idle"]

\* finally { setIsSyncingGithub(false) }: the handler is over.
Finally(a) == [a EXCEPT !.pc = "idle", !.isSyncingGithub = FALSE]

\* The pushFile under way settles; lands tells whether the provider committed
\* the file (it may have although the response was lost; it does not create
\* a file that exists when no sha is sent).  Success: the result is kept and
\* the next file is pushed, or, after the last file, the URL and the success
\* status are set.  Failure: pushFile throws out of initializeAndPush and the
\* catch sets the error status.  Either end runs the finally.
PushFileSettled(ok, lands) ==
  LET file == NextFile(app.filesToPush, app.results)
      results == Append(app.results, file.path)
      a == [app EXCEPT !.traffic = Append(@, Settled("PUT contents", file.path, ok)),
                       !.landed = IF lands THEN Append(@, file.path) ELSE @]
  IN /\ app.pc = "initializeAndPush"
     /\ ok => lands
     /\ lands => \A i \in 1..Len(app.landed) : app.landed[i] # file.path
     /\ app' = IF PushFileThrows(ok)
               THEN Finally([a EXCEPT !.githubStatus = "Pipeline Error"])
               ELSE IF Len(results) < Len(app.filesToPush)
                    THEN [a EXCEPT !.results = results,
                                   !.traffic = Append(@, PutRequest(NextFile(app.filesToPush, results)))]
                    ELSE Finally([a EXCEPT !.results = results,
                                           !.githubRepoUrl = "https://github.com/owner/repo",
                                           !.githubStatus = "Source Synchronized Successfully.",
                                           !.synced = TRUE])
     /\ UNCHANGED <<server, call, wire, faults, others, codec, modal>>

\* The GitHub form with the prompt and the sidebar.  The project name plays
\* no part in a push (the repository name is an input of its own), so the
\* results here carry none; NextEditor draws it.
NextApp ==
  \/ \E f \in GithubFields : EditGithubField(f)
  \/ ToggleInitReadme
  \/ handleRun
  \/ \E fs \in GeneratedLists : GenerationSettled(TRUE, fs, "")
  \/ GenerationSettled(FALSE, <<>>, "")
  \/ \E t \in Tabs : SetActiveTab(t)
  \/ handleGitHubPush
  \/ \E ok \in BOOLEAN : CreateRepositorySettled(ok)
  \/ \E ok, lands \in BOOLEAN : PushFileSettled(ok, lands)

SpecApp == InitApp /\ [][NextApp]_vars

\* The prompt, the file explorer and the sidebar, with the GitHub form left
\* alone.
NextEditor ==
  \/ handleRun
  \/ \E fs \in GeneratedLists, name \in ResultNames : GenerationSettled(TRUE, fs, name)
  \/ GenerationSettled(FALSE, <<>>, "")
  \/ \E t \in Tabs : SetActiveTab(t)
  \/ \E i \in 0..(MaxGenerated - 1) : SelectFile(i)

SpecEditor == InitApp /\ [][NextEditor]_vars

\* ------------------------------------------------------------ properties
IsReq(e, op) == e.dir = "req" /\ e.op = op
IsResp(e, op) == e.dir = "resp" /\ e.op = op

\* Positions in wire[c] of the requests / responses of one operation.
ReqsAt(c, op) == {n \in 1..Len(wire[c]) : IsReq(wire[c][n], op)}
RespsAt(c, op) == {n \in 1..Len(wire[c]) : IsResp(wire[c][n], op)}

\* Accepted ref updates made by invocation c.
MovesBy(c) == {i \in 1..Len(reflog) : reflog[i].by = c}

PathsIn(fs) == {fs[j].path : j \in 1..Len(fs)}

\* The text a reader finds at path p of tree t (Undefined when there is none).
TextAt(t, p) ==
  IF EntriesOf(t)[p] = Undefined THEN Undefined
  ELSE <<TextDecode(BytesOf(EntriesOf(t)[p]))>>

\* C1: every accepted ref update of an invocation whose batch is non-empty
\* with unique paths installs a commit whose tree is the tree of the tip read
\* in step 1 with exactly the batch's paths holding the batch's contents; every
\* other path is as in the base tree.
C1_Atomicity ==
  \A c \in Calls : \A i \in MovesBy(c) :
    LET k == call[c]
        new == TreeOf(reflog[i].to)
        base == TreeOf(k.latestCommitSha)
    IN (k.files # <<>> /\ ~HasDuplicatePaths(k.files)) =>
         \A p \in Paths :
           /\ p \notin PathsIn(k.files) => EntriesOf(new)[p] = EntriesOf(base)[p]
           /\ \A j \in 1..Len(k.files) :
                k.files[j].path = p => TextAt(new, p) = <<k.files[j].content>>

C1_Witness ==
  \E i \in MovesBy("A") :
    /\ call["A"].files = <<File("src/index.ts", <<20013>>)>>
    /\ TextAt(TreeOf(reflog[i].to), "src/index.ts") = <<(<<20013>>)>>
    /\ TextAt(TreeOf(reflog[i].to), "README.md") = <<(<<72>>)>>
    /\ ref = reflog[i].to

\* C2: once one of steps 1-5 of an invocation has failed, no ref update of
\* that invocation is accepted and no commit it created is reachable from the
\* branch.
C2_NoPartialEffect ==
  \A c \in Calls :
    call[c].failed \cap {"readRef", "readCommit", "blob", "tree", "commit"} # {} =>
      /\ MovesBy(c) = {}
      /\ \A x \in commits : StampOf(x) = c => ~IsAncestor(x, ref)

C2_Witness ==
  /\ call["A"].pc = "returned"
  /\ "blob" \in call["A"].failed
  /\ ReqsAt("A", "PATCH ref") # {}
  /\ ref = Commit0

\* C3: a ref update is accepted only while the branch still points at the tip
\* the invocation read in step 1; an invocation whose update was not accepted
\* gets a failure response and the branch stays where the last accepted
\* update put it; no two accepted updates start from the same tip.
C3_ConflictDetection ==
  /\ \A c \in Calls : \A i \in MovesBy(c) : reflog[i].from = call[c].latestCommitSha
  /\ \A i, j \in 1..Len(reflog) : i # j => reflog[i].from # reflog[j].from
  /\ \A c \in Calls : (call[c].pc = "returned" /\ MovesBy(c) = {}) => ~call[c].ok
  /\ ref = IF reflog = <<>> THEN Commit0 ELSE reflog[Len(reflog)].to

C3_Witness ==
  /\ faults = 0
  /\ call["A"].latestCommitSha = Commit0
  /\ call["B"].latestCommitSha = Commit0
  /\ MovesBy("B") # {}
  /\ call["A"].pc = "returned"
  /\ call["A"].newCommitSha \in commits
  /\ ~call["A"].ok
  /\ ref = call["B"].newCommitSha

\* C4: an invocation returns normally only if its ref update was accepted and
\* moved the branch to its new commit.
C4_SuccessOnlyIfMoved ==
  \A c \in Calls :
    call[c].pc = "returned" =>
      \E i \in MovesBy(c) : reflog[i].to = call[c].newCommitSha

\* C5: an invocation whose batch repeats a path sends no request.
C5_DuplicatePathsRejected ==
  \A c \in Calls : HasDuplicatePaths(call[c].files) => wire[c] = <<>>

\* C6: an invocation with an empty batch sends no request.
C6_EmptyBatchRejected ==
  \A c \in Calls : (call[c].pc # "idle" /\ call[c].files = <<>>) => wire[c] = <<>>

\* C7: the create-tree request comes after the responses to all N blob
\* requests of the invocation, in whatever order these arrived.
C7_BlobJoin ==
  \A c \in Calls : \A n \in ReqsAt(c, "POST trees") :
    \A i \in 1..Len(call[c].files) :
      \E m \in RespsAt(c, "POST blobs") : m < n /\ wire[c][m].i = i

C7_Witness ==
  /\ Len(call["A"].files) = 2
  /\ ReqsAt("A", "POST trees") # {}
  /\ \E m1, m2 \in RespsAt("A", "POST blobs") :
       wire["A"][m1].i = 1 /\ wire["A"][m2].i = 2 /\ m2 < m1

\* C8: the create-tree request names the base commit's tree as base_tree and
\* holds one entry per file, in input order: the file's path, mode 100644,
\* type blob, and the id the response to that file's blob request carried,
\* which (when a blob was created) is a blob holding that file's content.
C8_TreeEntriesKeyedByPath ==
  \A c \in Calls : \A n \in ReqsAt(c, "POST trees") :
    LET r == wire[c][n]
        fs == call[c].files
    IN /\ r.base_tree = TreeOf(call[c].latestCommitSha)
       /\ Len(r.tree) = Len(fs)
       /\ \A i \in 1..Len(fs) :
            /\ r.tree[i].path = fs[i].path
            /\ r.tree[i].mode = "100644"
            /\ r.tree[i].type = "blob"
            /\ \E m \in RespsAt(c, "POST blobs") :
                 wire[c][m].i = i /\ wire[c][m].sha = r.tree[i].sha
            /\ r.tree[i].sha # Undefined =>
                 TextDecode(BytesOf(r.tree[i].sha)) = fs[i].content

C8_Witness ==
  \E n \in ReqsAt("A", "POST trees") :
    /\ Len(call["A"].files) = 2
    /\ call["A"].files[1].content # call["A"].files[2].content
    /\ wire["A"][n].tree[1].sha # Undefined
    /\ wire["A"][n].tree[2].sha # Undefined
    /\ \E m1, m2 \in RespsAt("A", "POST blobs") :
         wire["A"][m1].i = 1 /\ wire["A"][m2].i = 2 /\ m2 < m1

\* The operations of the requests in wire[c], in order.
RequestOps(c) ==
  LET rs == SelectSeq(wire[c], LAMBDA e : e.dir = "req")
  IN [n \in 1..Len(rs) |-> rs[n].op]

ExpectedOps(n) ==
  <<"GET ref", "GET commit">> \o [i \in 1..n |-> "POST blobs"]
    \o <<"POST trees", "POST commits", "PATCH ref">>

\* The response to the request of operation op came before position n and
\* carried id sha.
Answered(c, op, n, sha) ==
  \E m \in RespsAt(c, op) : m < n /\ wire[c][m].sha = sha

\* C9: the requests of an invocation are a prefix of read ref, read commit,
\* N blob creations, create tree, create commit, update ref; each request
\* follows the response to the step before it and carries the id that
\* response produced.
C9_StepOrdering ==
  \A c \in Calls :
    LET ops == RequestOps(c)
        w == wire[c]
    IN /\ Len(ops) <= Len(call[c].files) + 5
       /\ ops = SubSeq(ExpectedOps(Len(call[c].files)), 1, Len(ops))
       /\ \A n \in ReqsAt(c, "GET commit") : Answered(c, "GET ref", n, w[n].sha)
       /\ \A n \in ReqsAt(c, "POST blobs") :
            /\ RespsAt(c, "GET commit") # {}
            /\ \A m \in RespsAt(c, "GET commit") : m < n
       /\ \A n \in ReqsAt(c, "POST trees") : Answered(c, "GET commit", n, w[n].base_tree)
       /\ \A n \in ReqsAt(c, "POST commits") :
            /\ Answered(c, "POST trees", n, w[n].tree)
            /\ w[n].parents = <<w[2].sha>>
            /\ IsResp(w[n - 1], "POST trees")
       /\ \A n \in ReqsAt(c, "PATCH ref") :
            /\ Answered(c, "POST commits", n, w[n].sha)
            /\ IsResp(w[n - 1], "POST commits")

C9_Witness ==
  /\ RequestOps("A") = ExpectedOps(2)
  /\ call["A"].ok
  /\ faults = 0

\* C10: a commit created by an invocation has exactly one parent, the id the
\* invocation's read of the branch ref returned, and its tree is the id the
\* invocation's create-tree request returned.
C10_CommitParentAndTree ==
  \A x \in commits :
    StampOf(x) \in Calls =>
      /\ Len(ParentsOf(x)) = 1
      /\ \E m \in RespsAt(StampOf(x), "GET ref") :
           wire[StampOf(x)][m].status = "ok" /\ wire[StampOf(x)][m].sha = ParentsOf(x)[1]
      /\ \E m \in RespsAt(StampOf(x), "POST trees") :
           wire[StampOf(x)][m].status = "ok" /\ wire[StampOf(x)][m].sha = TreeOf(x)

C10_Witness ==
  /\ others = 1
  /\ \E x \in commits :
       /\ StampOf(x) = "A"
       /\ ParentsOf(x) = <<ref>>
       /\ StampOf(ref) = "other"

\* C11: an invocation sends one read of the branch ref, as its first request,
\* and at most one ref update, as its last request; the branch moves at most
\* once on its behalf, every move of the branch is either that update or
\* another client's push, and the branch is where the last move put it.
C11_RefReadOnceWrittenOnce ==
  /\ \A c \in Calls :
       LET ops == RequestOps(c)
       IN /\ Cardinality(ReqsAt(c, "GET ref")) = (IF call[c].pc = "idle" THEN 0 ELSE 1)
          /\ ReqsAt(c, "GET ref") \subseteq {1}
          /\ Cardinality(ReqsAt(c, "PATCH ref")) <= 1
          /\ \A n \in 1..Len(ops) : ops[n] = "PATCH ref" => n = Len(ops)
          /\ Cardinality(MovesBy(c)) <= Cardinality(ReqsAt(c, "PATCH ref"))
          /\ \A i \in MovesBy(c) : IsResp(wire[c][Len(wire[c])], "PATCH ref")
  /\ \A i \in 1..Len(reflog) :
       /\ reflog[i].by \in Calls \cup {"other"}
       /\ reflog[i].from = IF i = 1 THEN Commit0 ELSE reflog[i - 1].to
  /\ ref = IF reflog = <<>> THEN Commit0 ELSE reflog[Len(reflog)].to

C11_Witness ==
  /\ call["A"].pc = "returned"
  /\ ~call["A"].ok
  /\ faults = 0
  /\ others = 1
  /\ Cardinality(ReqsAt("A", "PATCH ref")) = 1
  /\ MovesBy("A") = {}
  /\ StampOf(ref) = "other"

\* Objects the provider stored on behalf of invocation c: a blob of one of
\* its blob requests, a tree or a commit one of its responses carried.
CreatedFor(c) ==
  {wire[c][m].sha : m \in RespsAt(c, "POST blobs") \cup RespsAt(c, "POST trees")
                            \cup RespsAt(c, "POST commits")} \ {Undefined}

\* C12: an invocation whose read of the branch ref or of the base commit
\* failed (an error response or a network error) has thrown, has sent no
\* request that creates a blob, a tree or a commit and no ref update, and the
\* branch has not moved on its behalf.
C12_ReadFailureAborts ==
  \A c \in Calls :
    call[c].failed \cap {"readRef", "readCommit"} # {} =>
      /\ call[c].pc = "thrown"
      /\ \A op \in {"POST blobs", "POST trees", "POST commits", "PATCH ref"} :
           ReqsAt(c, op) = {}
      /\ CreatedFor(c) = {}
      /\ MovesBy(c) = {}
      /\ \A x \in commits : StampOf(x) # c

C12_Witness ==
  /\ call["A"].failed = {"readCommit"}
  /\ call["A"].pc = "thrown"
  /\ Len(call["A"].files) = 2
  /\ \E m \in RespsAt("A", "GET commit") : wire["A"][m].status = "http"
  /\ ref = Commit0

\* C13: once a blob request of an invocation has failed (an error response or
\* a network error), the invocation sends no create-tree, create-commit or
\* update-ref request.
C13_BlobFailureAborts ==
  \A c \in Calls : \A m \in RespsAt(c, "POST blobs") :
    wire[c][m].status # "ok" =>
      \A n \in (m + 1)..Len(wire[c]) :
        ~(\E op \in {"POST trees", "POST commits", "PATCH ref"} : IsReq(wire[c][n], op))

\* The stage at which an invocation first failed.
FirstFailedStage(c) ==
  LET f == call[c].failed
  IN IF f \cap {"readRef", "readCommit"} # {} THEN "read"
     ELSE IF "blob" \in f THEN "blob"
     ELSE IF "tree" \in f THEN "tree"
     ELSE IF "commit" \in f THEN "commit"
     ELSE "pointer"

HasFailed(c) == call[c].pc \in {"returned", "thrown"} /\ call[c].failed # {}

\* C14: what a failed invocation hands to its caller tells the stage that
\* failed: two failed invocations that hand over the same thing failed at the
\* same stage.
C14_FailureNamesStage ==
  \A c, d \in Calls :
    (HasFailed(c) /\ HasFailed(d) /\ Outcome(c) = Outcome(d)) =>
      FirstFailedStage(c) = FirstFailedStage(d)

\* C16: when the ref update of an invocation is accepted, the branch points,
\* right after it, at the commit the invocation's create-commit request
\* created: the id its response carried, a commit made for this invocation
\* whose only parent is the commit the branch pointed at before.
C16_RefAtNewCommit ==
  \A c \in Calls : \A i \in MovesBy(c) :
    LET to == reflog[i].to
    IN /\ to = call[c].newCommitSha
       /\ \E m \in RespsAt(c, "POST commits") :
            wire[c][m].status = "ok" /\ wire[c][m].sha = to
       /\ to \in commits
       /\ StampOf(to) = c
       /\ ParentsOf(to) = <<reflog[i].from>>
       /\ i = Len(reflog) => ref = to
       /\ call[c].ok

C16_Witness ==
  /\ call["A"].ok
  /\ MovesBy("A") = {1}
  /\ reflog[1].from = Commit0
  /\ ref = call["A"].newCommitSha
  /\ ParentsOf(ref) = <<Commit0>>
  /\ Len(call["A"].files) = 2

\* A JS string that is well-formed UTF-16: every surrogate is half of a pair.
WellFormed(str) ==
  \A i \in 1..Len(str) :
    /\ IsHighSurrogate(str[i]) => (i < Len(str) /\ IsLowSurrogate(str[i + 1]))
    /\ IsLowSurrogate(str[i]) => (i > 1 /\ IsHighSurrogate(str[i - 1]))

FirstFocusable(m) == Control(EnabledControls(m)[1])
LastFocusable(m) == Control(EnabledControls(m)[Len(EnabledControls(m))])

\* C17: while a NeuralModal is open, a Tab or Shift+Tab pressed with the focus
\* inside the dialog (on the container or on one of its controls) leaves the
\* focus inside the dialog; Tab on the last focusable control takes it to the
\* first, Shift+Tab on the first focusable control or on the container takes
\* it to the last.
C17_FocusTrap ==
  LET m == modal
      l == modal.last
  IN (/\ m.version \in {"NeuralModal.tsx", "part_007"}
      /\ m.isOpen
      /\ l.ev \in {"Tab", "Shift+Tab"}
      /\ l.from \in Inside(m)) =>
       /\ l.to \in Inside(m)
       /\ (l.ev = "Tab" /\ l.from = LastFocusable(m)) => l.to = FirstFocusable(m)
       /\ (l.ev = "Shift+Tab" /\ l.from \in {FirstFocusable(m), Container}) =>
            l.to = LastFocusable(m)

\* C18: a NeuralModal keeps the element that had the focus when it opened;
\* closing gives the focus back to that element; while the modal stays open,
\* a re-render of the parent (which passes a new onClose) leaves the focus
\* where it is.
C18_FocusRestoredOnCloseOnly ==
  LET m == modal
      l == modal.last
  IN m.version \in {"NeuralModal.tsx", "part_007"} =>
       /\ m.isOpen => m.savedFocus = m.opener
       /\ l.ev = "close" => m.focus = m.opener
       /\ (m.isOpen /\ l.ev = "rerender") => l.to = l.from

\* C19: whichever modal component it is, document.body.style.overflow is
\* 'hidden' whenever the modal is open (re-renders of the parent included),
\* and once a modal that was opened over a page whose overflow was not
\* 'hidden' is closed, the overflow is not 'hidden'.
C19_ScrollLock ==
  /\ modal.isOpen => modal.overflow = "hidden"
  /\ (~modal.isOpen /\ modal.opener # Null /\ modal.before # "hidden") =>
       modal.overflow # "hidden"

C19_Witness ==
  /\ modal.version = "NeuralModal.tsx"
  /\ ~modal.isOpen
  /\ modal.last.ev = "close"
  /\ modal.before = "scroll"
  /\ modal.overflow = "scroll"
  /\ modal.focus = PageControl

\* C20: the batch handleGitHubPush hands to initializeAndPush holds no path
\* twice, the README.md entry it appends included.
C20_PushBatchPathsDistinct ==
  app.pc = "initializeAndPush" => ~HasDuplicatePaths(app.filesToPush)

PathsOf(fs) == [i \in 1..Len(fs) |-> fs[i].path]

\* The PUT requests (responses) of the push that started last, in order.
PutRequests == SelectSeq(app.traffic, LAMBDA e : e.dir = "req" /\ e.op = "PUT contents")
PutResponses == SelectSeq(app.traffic, LAMBDA e : e.dir = "resp" /\ e.op = "PUT contents")

\* C21: initializeAndPush sends the PUT for the files one at a time in list
\* order: the j-th request is for the j-th file, at most one request is
\* unanswered, every request but the first comes right after a successful
\* response for the file before it, and the results are the results of the
\* files in list order, one per file once the push has succeeded.
C21_SequentialInOrder ==
  LET reqs == PutRequests
      resps == PutResponses
      files == PathsOf(app.filesToPush)
  IN /\ Len(reqs) <= Len(files)
     /\ PathsOf(reqs) = SubSeq(files, 1, Len(reqs))
     /\ Len(resps) <= Len(reqs) /\ Len(reqs) <= Len(resps) + 1
     /\ \A n \in 2..Len(app.traffic) :
          (app.traffic[n].dir = "req" /\ app.traffic[n - 1].op = "PUT contents") =>
            /\ app.traffic[n - 1].dir = "resp"
            /\ app.traffic[n - 1].ok
     /\ \A j \in 1..Len(resps) : resps[j].path = reqs[j].path
     /\ app.results = SubSeq(files, 1, Len(app.results))
     /\ Len(app.results) <= Len(resps)
     /\ app.githubStatus = "Source Synchronized Successfully." => app.results = files

C21_Witness ==
  /\ app.githubStatus = "Source Synchronized Successfully."
  /\ app.results = <<"src/index.ts", "README.md">>
  /\ Len(PutResponses) = 2
  /\ app.pc = "idle"

\* C22: whether createRepository succeeded or failed, the next thing the
\* handler does is initializeAndPush on the prepared files (its first PUT
\* follows the response at once), and the status is 'Pipeline Error' only
\* when a pushFile failed.
C22_CreateFailureSwallowed ==
  LET prepared == PreparedFiles(app.closure[1], app.closure[2])
  IN /\ \A n \in 1..Len(app.traffic) :
          (app.traffic[n].dir = "resp" /\ app.traffic[n].op = "POST user/repos") =>
            /\ Len(app.traffic) > n
            /\ app.traffic[n + 1] = PutRequest(prepared[1])
            /\ app.filesToPush = prepared
     /\ app.githubStatus = "Pipeline Error" =>
          \E j \in 1..Len(PutResponses) : ~PutResponses[j].ok

C22_Witness ==
  /\ Len(app.traffic) >= 2
  /\ app.traffic[2] = Settled("POST user/repos", "", FALSE)
  /\ app.githubStatus = "Source Synchronized Successfully."
  /\ app.results = <<"README.md", "src/index.ts">>

\* C23: when the PUT of the k-th file fails, the push ends in the caller's
\* catch ('Pipeline Error'), no file after the k-th is ever requested, only
\* the k-1 files before it have results, and those k-1 files are still
\* committed in the repository, in order.
C23_PartialPush ==
  LET resps == PutResponses
      k == Len(resps)
      files == PathsOf(app.filesToPush)
  IN (k > 0 /\ ~resps[k].ok) =>
       /\ app.pc = "idle"
       /\ app.githubStatus = "Pipeline Error"
       /\ Len(PutRequests) = k
       /\ PutRequests[k].path = files[k]
       /\ app.results = SubSeq(files, 1, k - 1)
       /\ Len(app.landed) >= k - 1
       /\ SubSeq(app.landed, 1, k - 1) = SubSeq(files, 1, k - 1)
       /\ \A n \in 1..Len(app.traffic) :
            app.traffic[n].op \in {"POST user/repos", "PUT contents"}

C23_Witness ==
  /\ Len(app.filesToPush) = 3
  /\ Len(PutResponses) = 2
  /\ PutResponses[1].ok
  /\ ~PutResponses[2].ok
  /\ app.landed = <<"src/index.ts">>
  /\ app.githubStatus = "Pipeline Error"

\* C24: a run of handleGitHubPush with the token, the owner or the repository
\* name empty, or with no generated files, sends no request and leaves
\* isSyncingGithub, githubStatus and githubRepoUrl as they were.
C24_GuardedPushIsInert ==
  [][(handleGitHubPush /\ (app.filled # GithubFields \/ app.currentFiles = <<>>)) =>
       /\ app'.traffic = app.traffic
       /\ app'.landed = app.landed
       /\ app'.pc = app.pc
       /\ app'.isSyncingGithub = app.isSyncingGithub
       /\ app'.githubStatus = app.githubStatus
       /\ app'.githubRepoUrl = app.githubRepoUrl]_vars

C24_Witness ==
  /\ app.filled = GithubFields
  /\ app.currentFiles = <<>>
  /\ app.alert = GuardAlert(app)
  /\ app.githubRepoUrl # "null"
  /\ app.githubStatus = "Source Synchronized Successfully."
  /\ ~app.isSyncingGithub

\* C25: githubRepoUrl is non-null only when no push is running and the push
\* that started last got an ok response for every file it prepared; while a
\* push runs and after one that failed it is null.
C25_UrlOnlyAfterSuccess ==
  /\ app.githubRepoUrl # "null" =>
       /\ app.pc = "idle"
       /\ app.githubStatus = "Source Synchronized Successfully."
       /\ app.filesToPush # <<>>
       /\ app.results = PathsOf(app.filesToPush)
       /\ Len(PutResponses) = Len(app.filesToPush)
       /\ \A j \in 1..Len(PutResponses) : PutResponses[j].ok
  /\ app.pc # "idle" => app.githubRepoUrl = "null"
  /\ app.githubStatus = "Pipeline Error" => app.githubRepoUrl = "null"

C25_Witness ==
  /\ app.synced
  /\ app.pc = "idle"
  /\ app.githubStatus = "Pipeline Error"
  /\ app.githubRepoUrl = "null"

\* C26: isSyncingGithub is true exactly while a validated push is running:
\* from its start to the response that ends it, and false again once it has
\* ended, with createRepository and initializeAndPush each having succeeded
\* or thrown.
C26_SyncingFlag ==
  /\ app.isSyncingGithub <=> app.pc # "idle"
  /\ app.githubStatus \in {"Source Synchronized Successfully.", "Pipeline Error"} =>
       ~app.isSyncingGithub

C26_Witness ==
  /\ Len(app.traffic) >= 2
  /\ ~app.traffic[2].ok
  /\ ~app.traffic[Len(app.traffic)].ok
  /\ app.githubStatus = "Pipeline Error"
  /\ app.pc = "idle"
  /\ ~app.isSyncingGithub

\* C27: whenever currentFiles is non-empty, selectedFileIndex is the index of
\* one of its entries (indices count from 0).
C27_SelectedFileExists ==
  app.currentFiles # <<>> => app.selectedFileIndex < Len(app.currentFiles)

\* C28: the step of handleRun in which generateFullStackProject has failed
\* leaves currentFiles, projectName and activeTab as they were and sets
\* isGenerating to false; currentFiles and projectName change only in the step
\* of a generation that succeeded, and activeTab only there or by a click on
\* the sidebar.
C28_FailedRunFrame ==
  [][/\ GenerationSettled(FALSE, <<>>, "") =>
          /\ app'.currentFiles = app.currentFiles
          /\ app'.projectName = app.projectName
          /\ app'.activeTab = app.activeTab
          /\ ~app'.isGenerating
     /\ (app'.currentFiles # app.currentFiles \/ app'.projectName # app.projectName) =>
          \E fs \in GeneratedLists, name \in ResultNames : GenerationSettled(TRUE, fs, name)
     /\ app'.activeTab # app.activeTab =>
          \/ \E fs \in GeneratedLists, name \in ResultNames : GenerationSettled(TRUE, fs, name)
          \/ \E t \in Tabs : SetActiveTab(t)]_vars

C28_Witness ==
  /\ ~app.isGenerating
  /\ app.alert = "System Overload"
  /\ Len(app.currentFiles) = 2
  /\ app.projectName = "generated"
  /\ app.activeTab = "WORKSPACE"

====
